---- MODULE Spec2Model ----
(***************************************************************************)
(* A model of the zathura pdf-mupdf plugin (src/pdf.c): the text span      *)
(* model with its search and text extraction, the page's lazy text         *)
(* extraction, and the outline index builder.                              *)
(*                                                                         *)
(* A run chain (fz_text_span list) is a non-empty sequence of runs         *)
(*   [text |-> <<[c |-> code point, bbox |-> [x0, y0, x1, y1]], ...>>,     *)
(*    eol  |-> BOOLEAN]                                                    *)
(* A C string is the sequence of its bytes before the terminating 0.       *)
(***************************************************************************)
EXTENDS Integers, Sequences, FiniteSets, TLC

VARIABLES
  content,         \* what the backend's text device yields for the page
  data,            \* the page's data pointer: "null", "live" or "dangling"
  text,            \* mupdf_page->text, the run chain
  extracted_text,  \* mupdf_page->extracted_text
  page_height,     \* zathura_page_get_height(page)
  passes,          \* pdf_run_page calls made by mupdf_page_extract_text
  okPasses,        \* those of them that returned fz_okay
  frees,           \* free counts of the record, native page and run chain of the last pdf_page_init
  last,            \* the last plugin call on the page: arguments and outcome
  forest,          \* the native outline forest of the document
  pc,              \* pdf_document_index_generate: "idle", "build", "done"
  stack,           \* the active build_index frames, innermost last
  nodes,           \* the girara tree nodes, in creation order
  leaked,          \* index elements allocated and never attached or freed
  idx              \* pdf_document_index_generate: arguments and outcome

textVars  == <<content, data, text, extracted_text, page_height, passes, okPasses, last,
               frees>>
indexVars == <<forest, pc, stack, nodes, leaked, idx>>
vars      == <<content, data, text, extracted_text, page_height, passes, okPasses, last,
               frees, forest, pc, stack, nodes, leaked, idx>>

(***************************************************************************)
(* Bounds                                                                  *)
(***************************************************************************)
MaxRuns   == 2   \* runs of a generated chain
MaxChars  == 2   \* real characters of a generated chain, all runs together
MaxPat    == 2   \* bytes of a generated search pattern
MaxPasses == 2   \* backend passes followed on one page
MaxEntries == 3  \* entries of a generated outline forest
MaxLeak   == 2   \* leaked index elements counted

(***************************************************************************)
(* Program constants                                                       *)
(***************************************************************************)
SPACE     == 32  \* ' '
QUESTION  == 63  \* '?'
NEWLINE   == 10  \* '\n'
FIRSTPRINTABLE == 32

RECURSIVE SumLen(_, _)
SumLen(chain, k) ==
  IF k > Len(chain) THEN 0 ELSE Len(chain[k].text) + SumLen(chain, k + 1)

(***************************************************************************)
(* The run chains and search patterns of the specifications.               *)
(***************************************************************************)
Bbox(x0, y0, x1, y1) == [x0 |-> x0, y0 |-> y0, x1 |-> x1, y1 |-> y1]

\* j-th character (from 0) of the page, on line ln (from 0): unit boxes
\* laid out left to right, lines stacked upwards from the page bottom.
GlyphAt(c, j, ln) == [c |-> c, bbox |-> Bbox(j, ln, j + 1, ln + 1)]

StreamCodes  == {97, 66, SPACE}         \* 'a', 'B', ' '
PatternBytes == {65, 98, SPACE}         \* 'A', 'b', ' '

Strings(S, n) == UNION {[1..m -> S] : m \in 0..n}

\* a chain of code strings with eol flags, laid out on the page
RECURSIVE LayOut(_, _, _)
LayOut(runs, k, j) ==
  IF k > Len(runs) THEN <<>>
  ELSE <<[text |-> [p \in 1..Len(runs[k].s) |-> GlyphAt(runs[k].s[p], j + p - 1, k - 1)],
          eol  |-> runs[k].eol]>>
       \o LayOut(runs, k + 1, j + Len(runs[k].s))

RECURSIVE RawLen(_, _)
RawLen(runs, k) == IF k > Len(runs) THEN 0 ELSE Len(runs[k].s) + RawLen(runs, k + 1)

RawRuns == [s : Strings(StreamCodes, MaxChars), eol : BOOLEAN]

RawChains ==
  {r \in UNION {[1..m -> RawRuns] : m \in 1..MaxRuns} : RawLen(r, 1) <= MaxChars}

Run(s, e) == [s |-> s, eol |-> e]

\* "foo" (ends the line) + "bar";  "abab";  "foo"
ExFooBar == <<Run(<<102, 111, 111>>, TRUE), Run(<<98, 97, 114>>, FALSE)>>
ExAbab   == <<Run(<<97, 98, 97, 98>>, FALSE)>>
ExFoo    == <<Run(<<102, 111, 111>>, FALSE)>>
PatFooBar == <<102, 111, 111, 32, 98, 97, 114>>
PatAb     == <<97, 98>>
PatFOO    == <<70, 79, 79>>

SearchChains == {LayOut(r, 1, 0) : r \in RawChains \cup {ExFooBar, ExAbab, ExFoo}}
Patterns     == Strings(PatternBytes, MaxPat) \cup {PatFooBar, PatAb, PatFOO}

\* what an out-of-bounds read of a character box may yield
GarbageBoxes == {Bbox(0, 0, 0, 0), Bbox(7, 7, 9, 9)}

(***************************************************************************)
(* text_span_char_at, text_span_length                                     *)
(***************************************************************************)
RECURSIVE CharAtFrom(_, _, _, _)
CharAtFrom(span, k, index, offset) ==
  IF k > Len(span) THEN 0
  ELSE IF index < offset + Len(span[k].text)
       THEN span[k].text[index - offset + 1].c
       ELSE IF span[k].eol /\ index = offset + Len(span[k].text)
            THEN SPACE
            ELSE CharAtFrom(span, k + 1, index,
                            offset + (IF span[k].eol THEN 1 ELSE 0) + Len(span[k].text))

text_span_char_at(span, index) == CharAtFrom(span, 1, index, 0)

RECURSIVE LengthFrom(_, _)
LengthFrom(span, k) ==
  IF k > Len(span) THEN 0
  ELSE Len(span[k].text) + (IF span[k].eol THEN 1 ELSE 0) + LengthFrom(span, k + 1)

text_span_length(span) == LengthFrom(span, 1)

(***************************************************************************)
(* text_span_match_string_n                                                *)
(***************************************************************************)
tolower(c) == IF c \in 65..90 THEN c + 32 ELSE c

\* a matcher that takes one stream space for a pattern space
SkipOneSpace(span, n) == n + 1

\* the inner while loop: n after every consecutive stream space
RECURSIVE SkipSpaces(_, _)
SkipSpaces(span, n) ==
  IF text_span_char_at(span, n) = SPACE THEN SkipSpaces(span, n + 1) ELSE n

\* the outer while loop from byte j of the string on, the stream at n:
\* the final n, or -1 where the code returns 0 on a mismatch
RECURSIVE MatchLoop(_, _, _, _)
MatchLoop(span, string, j, n) ==
  IF j > Len(string) THEN n
  ELSE LET c == string[j] IN
       IF c = SPACE /\ text_span_char_at(span, n) = SPACE
       THEN MatchLoop(span, string, j + 1, SkipSpaces(span, n))
       ELSE IF tolower(c) # tolower(text_span_char_at(span, n))
            THEN -1
            ELSE MatchLoop(span, string, j + 1, n + 1)

text_span_match_string_n(span, string, n) ==
  LET e == MatchLoop(span, string, 1, n) IN IF e = -1 THEN 0 ELSE e - n

(***************************************************************************)
(* search_result_add_char.  g is what a read before the start of a run's   *)
(* character array yields.                                                 *)
(***************************************************************************)
ZeroRect == [x1 |-> 0, y1 |-> 0, x2 |-> 0, y2 |-> 0]

AddBox(rectangle, coordinates) ==
  [x1 |-> IF rectangle.x1 = 0 THEN coordinates.x0 ELSE rectangle.x1,
   x2 |-> IF coordinates.x1 > rectangle.x2 THEN coordinates.x1 ELSE rectangle.x2,
   y1 |-> IF coordinates.y1 > rectangle.y1 THEN coordinates.y1 ELSE rectangle.y1,
   y2 |-> IF rectangle.y2 = 0 THEN coordinates.y0 ELSE rectangle.y2]

RECURSIVE AddCharFrom(_, _, _, _, _, _)
AddCharFrom(rectangle, span, k, index, offset, g) ==
  IF k > Len(span) THEN rectangle
  ELSE IF index < offset + Len(span[k].text)
       THEN AddBox(rectangle,
                   IF index - offset >= 0 THEN span[k].text[index - offset + 1].bbox ELSE g)
       ELSE AddCharFrom(rectangle, span, k + 1, index,
                        offset + (IF span[k].eol THEN 1 ELSE 0) + Len(span[k].text), g)

search_result_add_char(rectangle, span, index, g) ==
  AddCharFrom(rectangle, span, 1, index, 0, g)

\* the rectangle of a successful match of m positions from n: every consumed
\* position n, n+1, ... is added in turn
RECURSIVE MatchRect(_, _, _, _, _)
MatchRect(rectangle, span, n, m, g) ==
  IF m = 0 THEN rectangle
  ELSE MatchRect(search_result_add_char(rectangle, span, n, g), span, n + 1, m - 1, g)

\* the character-box read search_result_add_char(rectangle, span, index) makes:
\* the run whose array is read and the position index - offset read in it
RECURSIVE ReadFrom(_, _, _, _)
ReadFrom(span, k, index, offset) ==
  IF k > Len(span) THEN {}
  ELSE IF index < offset + Len(span[k].text)
       THEN {[run |-> k, p |-> index - offset]}
       ELSE ReadFrom(span, k + 1, index,
                     offset + (IF span[k].eol THEN 1 ELSE 0) + Len(span[k].text))

\* the reads of one call of text_span_match_string_n from pattern byte j and
\* index n on: a call that ends in a mismatch has made the reads before it
RECURSIVE MatchReads(_, _, _, _)
MatchReads(span, string, j, n) ==
  IF j > Len(string) THEN {}
  ELSE LET c == string[j] IN
       IF c = SPACE /\ text_span_char_at(span, n) = SPACE
       THEN LET e == SkipSpaces(span, n) IN
            UNION {ReadFrom(span, 1, q, 0) : q \in n..(e - 1)}
              \cup MatchReads(span, string, j + 1, e)
       ELSE IF tolower(c) # tolower(text_span_char_at(span, n))
            THEN {}
            ELSE ReadFrom(span, 1, n, 0) \cup MatchReads(span, string, j + 1, n + 1)

\* the reads of the whole for loop: one match attempt at every index
SearchReads(span, string, length) ==
  UNION {MatchReads(span, string, 1, i) : i \in 0..(length - 1)}


(***************************************************************************)
(* pdf_page_search_text                                                    *)
(***************************************************************************)
Flip(rectangle, height) ==
  [rectangle EXCEPT !.y1 = height - rectangle.y1, !.y2 = height - rectangle.y2]

\* a search that resumes after the end of each match
RECURSIVE SearchLoopSkipping(_, _, _, _, _, _)
SearchLoopSkipping(span, string, i, length, height, g) ==
  IF i >= length THEN <<>>
  ELSE LET match == text_span_match_string_n(span, string, i) IN
       IF match = 0
       THEN SearchLoopSkipping(span, string, i + 1, length, height, g)
       ELSE <<[start |-> i, len |-> match,
               rect  |-> Flip(MatchRect(ZeroRect, span, i, match, g), height)]>>
            \o SearchLoopSkipping(span, string, i + match, length, height, g)

\* the for loop from i on.  An entry of the list is the rectangle appended;
\* start and len record the start index and match length it was appended for.
RECURSIVE SearchLoop(_, _, _, _, _, _)
SearchLoop(span, string, i, length, height, g) ==
  IF i >= length THEN <<>>
  ELSE LET match == text_span_match_string_n(span, string, i) IN
       IF match = 0
       THEN SearchLoop(span, string, i + 1, length, height, g)
       ELSE <<[start |-> i, len |-> match,
               rect  |-> Flip(MatchRect(ZeroRect, span, i, match, g), height)]>>
            \o SearchLoop(span, string, i + 1, length, height, g)

\* a fresh fz_new_text_span(): one empty run
FreshSpan == <<[text |-> <<>>, eol |-> FALSE]>>

\* an extraction that never records that it has run
ExtractWithoutFlag(chain, extracted, runOk) ==
  IF extracted THEN [text |-> chain, extracted |-> TRUE, ran |-> FALSE, ok |-> FALSE]
  ELSE IF ~runOk THEN [text |-> chain, extracted |-> FALSE, ran |-> TRUE, ok |-> FALSE]
  ELSE [text |-> content, extracted |-> FALSE, ran |-> TRUE, ok |-> TRUE]

\* mupdf_page_extract_text on a page whose document is open: the chain and
\* the flag afterwards, and whether pdf_run_page was called
mupdf_page_extract_text(chain, extracted, runOk) ==
  IF extracted THEN [text |-> chain, extracted |-> TRUE, ran |-> FALSE, ok |-> FALSE]
  ELSE IF ~runOk THEN [text |-> chain, extracted |-> FALSE, ran |-> TRUE, ok |-> FALSE]
  ELSE [text |-> content, extracted |-> TRUE, ran |-> TRUE, ok |-> TRUE]

\* the error_ret epilogue: a slot still OK is set to UNKNOWN
ErrorRet(err) == IF err = "OK" THEN "UNKNOWN" ELSE err
SetError(errIn, e) == IF errIn = "NOSLOT" THEN errIn ELSE e

NoCall == [op |-> "none", pageNull |-> FALSE, mp |-> "live", patNull |-> FALSE,
           pat |-> <<>>, rect |-> ZeroRect, errIn |-> "OK", err |-> "OK",
           ret |-> "NULL", list |-> <<>>, str |-> <<>>,
           ranPass |-> FALSE, passOk |-> FALSE, extractedBefore |-> FALSE, reads |-> {}]

pdf_page_search_text(pageNull, mp, patNull, pat, errIn, runOk, listOk, g) ==
  /\ data = "live"
  /\ LET here == [NoCall EXCEPT !.op = "search", !.pageNull = pageNull, !.mp = mp,
                                !.patNull = patNull, !.pat = pat, !.errIn = errIn,
                                !.extractedBefore = extracted_text]
     IN
     IF pageNull \/ patNull
     THEN /\ last' = [here EXCEPT !.err = ErrorRet(SetError(errIn, "INVALID_ARGUMENTS"))]
          /\ UNCHANGED <<text, extracted_text, passes, okPasses>>
     ELSE IF mp # "live"
     THEN /\ last' = [here EXCEPT !.err = ErrorRet(errIn)]
          /\ UNCHANGED <<text, extracted_text, passes, okPasses>>
     ELSE LET x == mupdf_page_extract_text(text, extracted_text, runOk) IN
          /\ x.ran => passes < MaxPasses
          /\ text' = x.text
          /\ extracted_text' = x.extracted
          /\ passes' = passes + (IF x.ran THEN 1 ELSE 0)
          /\ okPasses' = okPasses + (IF x.ok THEN 1 ELSE 0)
          /\ IF ~listOk
             THEN last' = [here EXCEPT !.ranPass = x.ran, !.passOk = x.ok,
                                       !.err = ErrorRet(SetError(errIn, "OUT_OF_MEMORY"))]
             ELSE last' = [here EXCEPT !.ranPass = x.ran, !.passOk = x.ok,
                                       !.ret = "LIST",
                                       !.list = SearchLoop(x.text, pat, 0,
                                                  text_span_length(x.text), page_height, g),
                                       !.reads = SearchReads(x.text, pat,
                                                   text_span_length(x.text))]
  /\ UNCHANGED <<content, data, page_height, frees>>
  /\ UNCHANGED indexVars

(***************************************************************************)
(* pdf_page_get_text                                                       *)
(***************************************************************************)
\* g_string_append_c stores its argument as one gchar
ToGchar(c) == c % 256

Hit(hitbox, rectangle, height) ==
  /\ hitbox.x1 >= rectangle.x1
  /\ hitbox.x0 <= rectangle.x2
  /\ (height - hitbox.y1) >= rectangle.y1
  /\ (height - hitbox.y0) <= rectangle.y2

Printable(c) == IF c < FIRSTPRINTABLE THEN QUESTION ELSE c

\* the inner for loop of one run from character i on: the bytes appended
RECURSIVE RunText(_, _, _, _)
RunText(run, i, rectangle, height) ==
  IF i > Len(run.text) THEN <<>>
  ELSE (IF Hit(run.text[i].bbox, rectangle, height)
        THEN <<ToGchar(Printable(run.text[i].c))>> ELSE <<>>)
       \o RunText(run, i + 1, rectangle, height)

\* a newline after every run that ends a line, selected characters or not
NewlineAfterEveryLine(seen, run) == run.eol

\* seen == true && span->eol != 0
EndsWithNewline(seen, run) == seen /\ run.eol

\* the outer for loop from run k on
RECURSIVE ChainText(_, _, _, _)
ChainText(span, k, rectangle, height) ==
  IF k > Len(span) THEN <<>>
  ELSE LET t == RunText(span[k], 1, rectangle, height) IN
       t \o (IF EndsWithNewline(t # <<>>, span[k]) THEN <<NEWLINE>> ELSE <<>>)
         \o ChainText(span, k + 1, rectangle, height)

pdf_page_get_text(pageNull, mp, rectangle, errIn) ==
  /\ data = "live"
  /\ LET here == [NoCall EXCEPT !.op = "get_text", !.pageNull = pageNull, !.mp = mp,
                                !.rect = rectangle, !.errIn = errIn,
                                !.extractedBefore = extracted_text]
     IN
     IF pageNull \/ mp # "live"
     THEN last' = [here EXCEPT !.err = ErrorRet(SetError(errIn, "INVALID_ARGUMENTS"))]
     ELSE LET t == ChainText(text, 1, rectangle, page_height) IN
          IF Len(t) = 0
          THEN last' = here
          ELSE last' = [here EXCEPT !.ret = "TEXT", !.str = t]
  /\ UNCHANGED <<content, data, text, extracted_text, page_height, passes, okPasses, frees>>
  /\ UNCHANGED indexVars

(***************************************************************************)
(* pdf_page_init, pdf_page_clear                                           *)
(***************************************************************************)
\* how often each allocation of a pdf_page_init has been freed
NoFrees == [rec |-> 0, page |-> 0, text |-> 0]

\* the calloc succeeds; loadOk: pdf_load_page returns fz_okay; spanOk:
\* fz_new_text_span returns a run.  The pointer is stored on the page before
\* either, and error_free frees what was allocated without clearing it.
pdf_page_init(loadOk, spanOk) ==
  /\ data = "null"
  /\ IF loadOk /\ spanOk
     THEN /\ data' = "live"
          /\ text' = FreshSpan
          /\ extracted_text' = FALSE
          /\ frees' = NoFrees
     ELSE /\ data' = "dangling"
          /\ frees' = [rec |-> 1, page |-> IF loadOk THEN 1 ELSE 0, text |-> 0]
          /\ UNCHANGED <<text, extracted_text>>
  /\ passes' = 0
  /\ okPasses' = 0
  /\ last' = NoCall
  /\ UNCHANGED <<content, page_height>>
  /\ UNCHANGED indexVars

\* the host's call pdf_page_clear(page, the page's stored data), after which
\* it disposes of the page.  With a stored pointer to a freed record the two
\* member reads yield anything (textSeen, pageSeen: the member read is not
\* NULL) and the record is freed once more.
pdf_page_clear ==
  /\ data \in {"live", "dangling"}
  /\ IF data = "live"
     THEN frees' = [rec |-> 1, page |-> 1, text |-> 1]
     ELSE \E textSeen \in BOOLEAN, pageSeen \in BOOLEAN :
            frees' = [rec  |-> frees.rec + 1,
                      page |-> frees.page + (IF pageSeen THEN 1 ELSE 0),
                      text |-> frees.text + (IF textSeen THEN 1 ELSE 0)]
  /\ data' = "null"
  /\ UNCHANGED <<content, text, extracted_text, page_height, passes, okPasses, last>>
  /\ UNCHANGED indexVars


(***************************************************************************)
(* The index part at rest, for the specifications of the text part.        *)
(***************************************************************************)
NoIdx == [docNull |-> FALSE, errIn |-> "OK", err |-> "OK", ret |-> "NULL"]

IndexAtRest ==
  /\ forest = <<>>
  /\ pc = "idle"
  /\ stack = <<>>
  /\ nodes = <<>>
  /\ leaked = 0
  /\ idx = NoIdx

(***************************************************************************)
(* SpecSearch: searches of an extracted page, over every generated chain   *)
(* and pattern.                                                            *)
(***************************************************************************)
InitExtracted(chains, heights) ==
  /\ content \in chains
  /\ text = content
  /\ data = "live"
  /\ extracted_text = TRUE
  /\ page_height \in heights
  /\ passes = 1
  /\ okPasses = 1
  /\ last = NoCall
  /\ frees = NoFrees
  /\ IndexAtRest

SearchHeight == MaxChars + MaxRuns

InitSearch == InitExtracted(SearchChains, {SearchHeight})

\* one search of each page: the result depends on the chain and the pattern alone
NextSearch ==
  \E pat \in Patterns, g \in GarbageBoxes :
    /\ last.op = "none"
    /\ pdf_page_search_text(FALSE, "live", FALSE, pat, "OK", TRUE, TRUE, g)

SpecSearch == InitSearch /\ [][NextSearch]_vars

(***************************************************************************)
(* SpecGetText: text extraction from an extracted page, over chains of     *)
(* boxed characters, rectangles and page heights.                          *)
(***************************************************************************)
MaxCoord == 2   \* largest coordinate of a generated rectangle

\* a printable character low on the page, a control character above it
GeomGlyphs == {[c |-> 97, bbox |-> Bbox(0, 0, 1, 1)], [c |-> 9, bbox |-> Bbox(1, 1, 2, 2)]}

GeomRuns == [text : Strings(GeomGlyphs, MaxChars), eol : BOOLEAN]

GeomChains ==
  {r \in UNION {[1..m -> GeomRuns] : m \in 1..MaxRuns} : SumLen(r, 1) <= MaxChars}

Rectangles ==
  {r \in [x1 : 0..MaxCoord, y1 : 0..MaxCoord, x2 : 0..MaxCoord, y2 : 0..MaxCoord] :
     r.x1 <= r.x2 /\ r.y1 <= r.y2}

Heights == {MaxCoord, MaxCoord + 1}

InitGetText == InitExtracted(GeomChains, Heights)

NextGetText ==
  \E rectangle \in Rectangles :
    /\ last.op = "none"
    /\ pdf_page_get_text(FALSE, "live", rectangle, "OK")

SpecGetText == InitGetText /\ [][NextGetText]_vars


(***************************************************************************)
(* The flattened text index of the data model: the real characters of      *)
(* every run, and one space after each run that ends a line.               *)
(***************************************************************************)
RECURSIVE Flat(_, _)
Flat(chain, k) ==
  IF k > Len(chain) THEN <<>>
  ELSE [p \in 1..Len(chain[k].text) |-> chain[k].text[p].c]
       \o (IF chain[k].eol THEN <<SPACE>> ELSE <<>>)
       \o Flat(chain, k + 1)

\* the same letter, but for ASCII case
SameLetter(a, b) ==
  \/ a = b
  \/ a \in 65..90 /\ b = a + 32
  \/ b \in 65..90 /\ a = b + 32

\* the stream position after the maximal run of spaces that holds position p
SpaceRunEnd(stream, p) ==
  CHOOSE e \in (p + 1)..Len(stream) :
    /\ \A q \in (p + 1)..e : stream[q] = SPACE
    /\ e = Len(stream) \/ stream[e + 1] # SPACE

\* the alignment rule: the stream position after pattern bytes j.., from
\* position p (counted from 0), or -1 when the pattern does not align
RECURSIVE Align(_, _, _, _)
Align(stream, pat, j, p) ==
  IF j > Len(pat) THEN p
  ELSE IF p >= Len(stream) THEN -1
  ELSE IF pat[j] = SPACE /\ stream[p + 1] = SPACE
       THEN Align(stream, pat, j + 1, SpaceRunEnd(stream, p))
  ELSE IF SameLetter(pat[j], stream[p + 1])
       THEN Align(stream, pat, j + 1, p + 1)
  ELSE -1

Starts(list) == [k \in 1..Len(list) |-> list[k].start]

Searched == last.op = "search" /\ last.ret = "LIST"

\* C1: the list of a search holds exactly one rectangle for each start index
\* i in 0..length-1 at which text_span_match_string_n is nonzero, in ascending
\* order of i; a match never makes the search skip a later start index.
C1_OneRectanglePerMatchingStart ==
  Searched =>
    LET hits == {i \in 0..(text_span_length(text) - 1) :
                   text_span_match_string_n(text, last.pat, i) # 0}
    IN /\ Len(last.list) = Cardinality(hits)
       /\ {last.list[k].start : k \in 1..Len(last.list)} = hits
       /\ \A k \in 1..(Len(last.list) - 1) : last.list[k].start < last.list[k + 1].start
       /\ \A k \in 1..Len(last.list) :
            last.list[k].len = text_span_match_string_n(text, last.pat, last.list[k].start)

\* "ab" on the single run "abab": two rectangles, for start indices 0 and 2
C1_Witness ==
  /\ Searched
  /\ text = LayOut(ExAbab, 1, 0)
  /\ last.pat = PatAb
  /\ Starts(last.list) = <<0, 2>>

\* C2: from every start index, text_span_match_string_n returns the number
\* of stream positions the alignment rule consumes (at least the pattern
\* length) when the pattern aligns there, and 0 when it does not; "FOO"
\* matches "foo".
C2_MatchIsAlignment ==
  /\ Searched =>
       \A s \in 0..text_span_length(text) :
         LET e == Align(Flat(text, 1), last.pat, 1, s)
             m == text_span_match_string_n(text, last.pat, s)
         IN /\ m = (IF e = -1 THEN 0 ELSE e - s)
            /\ e # -1 => m >= Len(last.pat)
  /\ text_span_match_string_n(LayOut(ExFoo, 1, 0), PatFOO, 0) = Len(PatFOO)

\* "foo bar" on "foo" (ends the line) + "bar": one match, over both runs
C2_Witness ==
  /\ Searched
  /\ text = LayOut(ExFooBar, 1, 0)
  /\ last.pat = PatFooBar
  /\ Starts(last.list) = <<0>>
  /\ last.list[1].len = Len(PatFooBar)

(***************************************************************************)
(* The text a rectangle selects, run by run.                               *)
(***************************************************************************)
Selected(run, rectangle, height) ==
  LET In(ch) == /\ ch.bbox.x1 >= rectangle.x1
                /\ ch.bbox.x0 <= rectangle.x2
                /\ height - ch.bbox.y1 >= rectangle.y1
                /\ height - ch.bbox.y0 <= rectangle.y2
  IN SelectSeq(run.text, In)

Shown(chars) == [p \in 1..Len(chars) |-> IF chars[p].c < 32 THEN 63 ELSE chars[p].c]

RECURSIVE SelectedText(_, _, _, _)
SelectedText(chain, k, rectangle, height) ==
  IF k > Len(chain) THEN <<>>
  ELSE LET sel == Selected(chain[k], rectangle, height) IN
       Shown(sel) \o (IF chain[k].eol /\ sel # <<>> THEN <<10>> ELSE <<>>)
                  \o SelectedText(chain, k + 1, rectangle, height)

GotText == last.op = "get_text" /\ ~last.pageNull /\ last.mp = "live"

PageContents ==
  {FreshSpan, LayOut(<<Run(<<97>>, TRUE)>>, 1, 0), LayOut(ExFooBar, 1, 0)}

PagePatterns == {<<97>>, PatFooBar}

\* a rectangle over the whole page, and one off the page
Cover   == [x1 |-> 0, y1 |-> 0, x2 |-> 2 * SearchHeight, y2 |-> SearchHeight]
OffPage == [x1 |-> 2 * SearchHeight + 1, y1 |-> 0, x2 |-> 2 * SearchHeight + 1, y2 |-> 0]

ErrorSlots == {"NOSLOT", "OK"}
PageArgs   == {"null", "notext", "live"}

InitPage ==
  /\ content \in PageContents
  /\ data = "null"
  /\ text = FreshSpan
  /\ extracted_text = FALSE
  /\ page_height = SearchHeight
  /\ passes = 0
  /\ okPasses = 0
  /\ last = NoCall
  /\ frees = NoFrees
  /\ IndexAtRest

NextPage ==
  \/ \E loadOk \in BOOLEAN, spanOk \in BOOLEAN : pdf_page_init(loadOk, spanOk)
  \/ pdf_page_clear
  \/ \E pageNull \in BOOLEAN, mp \in PageArgs, patNull \in BOOLEAN, errIn \in ErrorSlots,
        runOk \in BOOLEAN, listOk \in BOOLEAN, g \in GarbageBoxes :
       \E pat \in IF patNull THEN {<<>>} ELSE PagePatterns :
         pdf_page_search_text(pageNull, mp, patNull, pat, errIn, runOk, listOk, g)
  \/ \E pageNull \in BOOLEAN, mp \in PageArgs, rectangle \in {Cover, OffPage},
        errIn \in ErrorSlots :
       pdf_page_get_text(pageNull, mp, rectangle, errIn)

SpecPage == InitPage /\ [][NextPage]_vars

ValidSearch  == last.op = "search" /\ ~last.pageNull /\ ~last.patNull /\ last.mp = "live"
ValidGetText == last.op = "get_text" /\ ~last.pageNull /\ last.mp = "live"

\* C3: on a page not yet extracted, a call of pdf_page_search_text or of
\* pdf_page_get_text runs the extraction pass, and when the pass succeeds
\* the call works on the populated chain.
C3_FirstCallExtracts ==
  (ValidSearch \/ ValidGetText) /\ ~last.extractedBefore =>
    /\ last.ranPass
    /\ last.passOk => extracted_text /\ text = content
    /\ ValidGetText =>
         last.str = SelectedText(content, 1, last.rect, page_height)

\* C4 as stated: after any search call with valid arguments the backend pass
\* has been performed exactly once since pdf_page_init, whatever its outcome.
C4_PassExactlyOnce == ValidSearch => passes = 1

\* C4 amended: a search call with valid arguments performs the backend pass
\* exactly when no earlier pass on the page has succeeded; a failed pass
\* leaves the page un-extracted, the pass succeeds at most once, and once it
\* has succeeded no later call performs a pass.
C4_PassUntilSuccess ==
  data = "live" =>
    /\ okPasses <= 1
    /\ okPasses <= passes
    /\ extracted_text = (okPasses = 1)
    /\ last.op = "search" =>
         /\ last.ranPass = (ValidSearch /\ ~last.extractedBefore)
         /\ last.extractedBefore => ~last.ranPass /\ extracted_text
         /\ last.ranPass /\ ~last.passOk => ~extracted_text
         /\ last.ranPass /\ last.passOk => extracted_text /\ text = content

\* a failed pass, a successful pass, then a search that reuses the chain
C4_Witness ==
  /\ ValidSearch
  /\ passes = 2
  /\ okPasses = 1
  /\ last.extractedBefore
  /\ ~last.ranPass
  /\ last.ret = "LIST"

NullInput ==
  \/ last.op = "search" /\ (last.pageNull \/ last.patNull \/ last.mp # "live")
  \/ last.op = "get_text" /\ (last.pageNull \/ last.mp # "live")

\* C6: a search or text extraction with a null page, null backend data, null
\* run chain or (search) null pattern, and the error slot OK, reports
\* InvalidArguments and returns nothing.
C6_NullInputIsInvalidArguments ==
  NullInput /\ last.errIn = "OK" =>
    last.err = "INVALID_ARGUMENTS" /\ last.ret = "NULL"

\* C10: a search whose extraction pass fails reports the generic
\* operation-failed error (out of memory when the list cannot be allocated
\* either) and hands no list to the caller.
C10_FailedPassIsReported ==
  ValidSearch /\ last.ranPass /\ ~last.passOk /\ last.errIn = "OK" =>
    last.err \in {"UNKNOWN", "OUT_OF_MEMORY"} /\ last.ret = "NULL"


(***************************************************************************)
(* The native outline forest: entry e of 1..Len(forest) is                 *)
(*   [kind, linkOk, child, next]                                           *)
(* kind the pdf_link kind of outline->link, linkOk whether zathura_link_new *)
(* returns a link for it, child and next the entries outline->child and    *)
(* outline->next point to (0 for NULL).  pdf_load_outline returns entry 1, *)
(* or NULL for the empty forest.                                           *)
(***************************************************************************)
\* shapes: par[i] is the parent of entry i (0 for a top-level entry), the
\* entries numbered in document order
RECURSIVE OnPathToRoot(_, _, _)
OnPathToRoot(par, a, i) ==
  IF a = i THEN TRUE ELSE IF i = 0 THEN FALSE ELSE OnPathToRoot(par, a, par[i])

Shapes(n) ==
  {par \in [1..n -> 0..(n - 1)] :
     \A i \in 1..n : par[i] < i /\ (i > 1 => OnPathToRoot(par, par[i], i - 1))}

Later(par, i) == {j \in (i + 1)..Len(par) : par[j] = par[i]}
MinOf(S) == CHOOSE x \in S : \A y \in S : x <= y

LinkOutcomes ==
  {l \in [kind : {"URI", "GOTO", "OTHER"}, linkOk : BOOLEAN] : l.kind = "OTHER" => l.linkOk}

MakeForest(par, links) ==
  [i \in 1..Len(par) |->
     [kind   |-> links[i].kind,
      linkOk |-> links[i].linkOk,
      child  |-> IF i < Len(par) /\ par[i + 1] = i THEN i + 1 ELSE 0,
      next   |-> IF Later(par, i) = {} THEN 0 ELSE MinOf(Later(par, i))]]

Forests ==
  UNION {{MakeForest(par, links) : par \in Shapes(n), links \in [1..n -> LinkOutcomes]} :
           n \in 0..MaxEntries}

\* [A, B[C, D]] with B of an unsupported kind
ExForestABCD ==
  <<[kind |-> "GOTO",  linkOk |-> TRUE, child |-> 0, next |-> 2],
    [kind |-> "OTHER", linkOk |-> TRUE, child |-> 3, next |-> 0],
    [kind |-> "URI",   linkOk |-> TRUE, child |-> 0, next |-> 4],
    [kind |-> "GOTO",  linkOk |-> TRUE, child |-> 0, next |-> 0]>>

(***************************************************************************)
(* pdf_document_index_generate and build_index.  A tree node is            *)
(*   [entry, parent]: the outline entry its index element was made for     *)
(* (0 for "ROOT") and the node it was appended to (0 for the root node);   *)
(* node k is the k-th node created.                                        *)
(***************************************************************************)
RootNode == [entry |-> 0, parent |-> 0]

\* a generator that makes the root node before it looks at the outline
RootBeforeChecks == <<RootNode>>

\* the nodes made when pdf_document_index_generate returns at a failed check
NodesAtFailedCheck == <<>>

pdf_document_index_generate(docNull, mdocNull, errIn) ==
  /\ pc = "idle"
  /\ LET here == [docNull |-> docNull \/ mdocNull, errIn |-> errIn, err |-> errIn,
                  ret |-> "NULL"]
     IN
     IF docNull \/ mdocNull
     THEN /\ idx' = [here EXCEPT !.err = SetError(errIn, "INVALID_ARGUMENTS")]
          /\ nodes' = NodesAtFailedCheck
          /\ pc' = "done"
          /\ UNCHANGED stack
     ELSE IF forest = <<>>
     THEN /\ idx' = [here EXCEPT !.err = SetError(errIn, "UNKNOWN")]
          /\ nodes' = NodesAtFailedCheck
          /\ pc' = "done"
          /\ UNCHANGED stack
     ELSE /\ idx' = here
          /\ nodes' = <<RootNode>>
          /\ stack' = <<[outline |-> 1, root |-> 1]>>
          /\ pc' = "build"
  /\ UNCHANGED <<forest, leaked>>
  /\ UNCHANGED textVars

\* a walk that hangs a child chain under the node its parent entry hangs under
ChildRootIsRoot(root, node) == root

\* the node a child chain is built under: the node just appended
ChildRoot(root, node) == node

\* the entry kinds the switch accepts
Supported(kind) == kind \in {"URI", "GOTO"}

\* one round of the while loop of the innermost build_index call, or its
\* return to its caller
build_index ==
  /\ pc = "build"
  /\ LET d == Len(stack)
         f == stack[d]
     IN
     IF f.outline = 0
     THEN \* the loop is over: return; the caller goes on at outline->next
          /\ IF d = 1
             THEN /\ stack' = <<>>
                  /\ pc' = "done"
                  /\ idx' = [idx EXCEPT !.ret = "TREE"]
             ELSE /\ stack' = [SubSeq(stack, 1, d - 1) EXCEPT
                                 ![d - 1].outline = forest[stack[d - 1].outline].next]
                  /\ UNCHANGED <<pc, idx>>
          /\ UNCHANGED <<nodes, leaked>>
     ELSE LET e == forest[f.outline] IN
          IF ~Supported(e.kind) \/ ~e.linkOk
          THEN \* continue: the same entry again, its index element lost
               /\ leaked' = IF leaked < MaxLeak THEN leaked + 1 ELSE leaked
               /\ UNCHANGED <<stack, nodes, pc, idx>>
          ELSE /\ nodes' = Append(nodes, [entry |-> f.outline, parent |-> f.root])
               /\ IF e.child # 0
                  THEN stack' = Append(stack, [outline |-> e.child,
                                               root |-> ChildRoot(f.root, Len(nodes) + 1)])
                  ELSE stack' = [stack EXCEPT ![d].outline = e.next]
               /\ UNCHANGED <<leaked, pc, idx>>
  /\ UNCHANGED forest
  /\ UNCHANGED textVars

(***************************************************************************)
(* SpecIndex: index generation over every generated outline forest.        *)
(***************************************************************************)
TextAtRest ==
  /\ content = FreshSpan
  /\ data = "null"
  /\ text = FreshSpan
  /\ extracted_text = FALSE
  /\ page_height = SearchHeight
  /\ passes = 0
  /\ okPasses = 0
  /\ last = NoCall
  /\ frees = NoFrees

InitIndex ==
  /\ forest \in Forests \cup {ExForestABCD}
  /\ pc = "idle"
  /\ stack = <<>>
  /\ nodes = <<>>
  /\ leaked = 0
  /\ idx = NoIdx
  /\ TextAtRest

NextIndex ==
  \/ \E docNull \in BOOLEAN, mdocNull \in BOOLEAN, errIn \in ErrorSlots :
       pdf_document_index_generate(docNull, mdocNull, errIn)
  \/ build_index

SpecIndex == InitIndex /\ [][NextIndex]_vars

\* the host calls on; a call that does not return keeps running
FairSpecIndex == SpecIndex /\ WF_vars(build_index)

(***************************************************************************)
(* The tree of a forest: its entries in depth-first order, each under the  *)
(* node of its parent entry, without the entries Dropped holds of and      *)
(* their subtrees.                                                         *)
(***************************************************************************)
Unsupported(entry) == entry.kind \notin {"URI", "GOTO"}

\* drop: whether entries of an unsupported kind are dropped
RECURSIVE TreeOf(_, _, _, _, _)
TreeOf(f, e, parentNode, acc, drop) ==
  IF e = 0 THEN acc
  ELSE IF drop /\ Unsupported(f[e]) THEN TreeOf(f, f[e].next, parentNode, acc, drop)
  ELSE LET acc1 == Append(acc, [entry |-> e, parent |-> parentNode])
           acc2 == TreeOf(f, f[e].child, Len(acc1), acc1, drop)
       IN TreeOf(f, f[e].next, parentNode, acc2, drop)

AllLinksBuilt(f) == \A e \in 1..Len(f) : f[e].linkOk
AllSupported(f)  == \A e \in 1..Len(f) : f[e].kind \in {"URI", "GOTO"}

Returned == pc = "done" /\ idx.ret = "TREE"

\* C5: index generation returns the tree of exactly the entries that have a
\* supported link kind and no ancestor of an unsupported kind: at an entry
\* of an unsupported kind the walk drops the entry with its subtree and goes
\* on with the entry's next sibling.
C5_DroppedEntrySkipped ==
  /\ [](Returned /\ AllLinksBuilt(forest) =>
          nodes = TreeOf(forest, 1, 1, <<RootNode>>, TRUE))
  /\ [][(/\ pc = "build"
         /\ stack # <<>>
         /\ stack[Len(stack)].outline # 0
         /\ Unsupported(forest[stack[Len(stack)].outline]))
        => /\ Len(stack') = Len(stack)
           /\ stack'[Len(stack)].outline = forest[stack[Len(stack)].outline].next
           /\ nodes' = nodes]_vars

\* C7 as stated: with a null document or a null outline root the generator
\* reports InvalidArguments, makes no node and returns no tree.
C7_NullIsInvalidArguments ==
  pc = "done" /\ (idx.docNull \/ forest = <<>>) /\ idx.errIn = "OK" =>
    idx.err = "INVALID_ARGUMENTS" /\ nodes = <<>> /\ idx.ret = "NULL"

\* C7 amended: with a null document the generator reports InvalidArguments,
\* with a null outline root the generic error UNKNOWN; in both cases it makes
\* no node, the root included, and returns no tree.
C7_NullStopsBeforeAnyNode ==
  pc = "done" /\ (idx.docNull \/ forest = <<>>) =>
    /\ nodes = <<>>
    /\ idx.ret = "NULL"
    /\ idx.errIn = "OK" =>
         idx.err = (IF idx.docNull THEN "INVALID_ARGUMENTS" ELSE "UNKNOWN")
    /\ idx.errIn = "NOSLOT" => idx.err = "NOSLOT"

\* a document without an outline: the generic error
C7_Witness ==
  /\ pc = "done"
  /\ ~idx.docNull
  /\ forest = <<>>
  /\ idx.errIn = "OK"
  /\ idx.err = "UNKNOWN"
  /\ idx.ret = "NULL"

\* C9: for a forest whose entries all have a supported kind and a link that
\* was built, the returned tree has the synthetic root and one node per
\* entry, made in depth-first pre-order, each under the node of its parent
\* entry, the children of a node in sibling order.
C9_TreeIsTheForest ==
  Returned /\ AllSupported(forest) /\ AllLinksBuilt(forest) =>
    /\ nodes = TreeOf(forest, 1, 1, <<RootNode>>, FALSE)
    /\ Len(nodes) = Len(forest) + 1
    /\ nodes[1] = RootNode
    /\ leaked = 0

\* three entries on two levels: a first entry with a child, then its sibling
C9_Witness ==
  /\ Returned
  /\ Len(forest) = 3
  /\ AllSupported(forest) /\ AllLinksBuilt(forest)
  /\ forest[1].child = 2 /\ forest[1].next = 3
  /\ nodes = <<RootNode, [entry |-> 1, parent |-> 1], [entry |-> 2, parent |-> 2],
               [entry |-> 3, parent |-> 1]>>


(***************************************************************************)
(* The boxes of the flattened text index: the box of every real character, *)
(* and a boxless position after each run that ends a line.                 *)
(***************************************************************************)
RECURSIVE FlatBoxes(_, _)
FlatBoxes(chain, k) ==
  IF k > Len(chain) THEN <<>>
  ELSE [p \in 1..Len(chain[k].text) |-> [real |-> TRUE, bbox |-> chain[k].text[p].bbox]]
       \o (IF chain[k].eol THEN <<[real |-> FALSE, bbox |-> Bbox(0, 0, 0, 0)]>> ELSE <<>>)
       \o FlatBoxes(chain, k + 1)

\* C11: the rectangle of every match that starts on a real character has
\* for x1 the left edge of that first character's box, also when that edge
\* is 0 and whatever the boxes of the characters matched after it.
C11_X1IsFirstLeftEdge ==
  Searched =>
    \A k \in 1..Len(last.list) :
      LET first == FlatBoxes(text, 1)[last.list[k].start + 1] IN
      first.real => last.list[k].rect.x1 = first.bbox.x0


\* the entry the innermost build_index call is at (0 at the end of a chain)
Current == stack[Len(stack)].outline

AtSkippedEntry ==
  /\ pc = "build"
  /\ stack # <<>>
  /\ Current # 0
  /\ Unsupported(forest[Current]) \/ ~forest[Current].linkOk

\* C12: build_index terminates on every forest: at an entry of an unsupported
\* kind, or whose link object is not built, the walk goes on with the entry's
\* next sibling, and a walk that was started returns.
C12_WalkAdvancesAndReturns ==
  /\ [][AtSkippedEntry =>
          /\ Len(stack') = Len(stack)
          /\ stack'[Len(stack)].outline = forest[Current].next]_vars
  /\ (pc = "build") ~> (pc = "done")


\* C13: every character-box read of a search is inside the character array of
\* the run it reads, 0 <= p < run.len, also for a matched line-end virtual
\* space of a run that has a following run.
C13_ReadsWithinRun ==
  Searched =>
    \A r \in last.reads : 0 <= r.p /\ r.p < Len(text[r.run].text)


\* C14: the data pointer stored on the page never refers to a freed page
\* record, also after a pdf_page_init that failed after storing it, and the
\* page record, its native page and its run chain are each freed at most once.
C14_StoredPointerNeverFreed ==
  /\ data # "dangling"
  /\ frees.rec <= 1 /\ frees.page <= 1 /\ frees.text <= 1

====
